---- MODULE Spec2Model ----
(***************************************************************************)
(* Model of the "Ultimate Tracker" server of percJaja/Proje.               *)
(*                                                                         *)
(* The repository holds two variants of the same server: src/server.js     *)
(* and the "enhanced" src/unnamed/part_000.  Both are meant to be saved as  *)
(* server.js; a process runs exactly one of them.  The variable `build`    *)
(* fixes, in the initial state, which of the two files is running, and     *)
(* every handler is translated from the file `build` names.                *)
(*                                                                         *)
(* Strings that the code inspects character by character (the tracking     *)
(* number) are sequences of one-character strings; strings that the code   *)
(* only passes around are TLA+ strings.  An instant is its number of       *)
(* milliseconds since the epoch; Date.prototype.toISOString is a lossless, *)
(* order-preserving rendering of that number and is represented by it.     *)
(***************************************************************************)
EXTENDS Integers, Sequences, FiniteSets, TLC

VARIABLES
    build,                \* which file runs: "server.js" or "part_000"
    env,                  \* process.env: [AMZ_USER, AMZ_PASS], TRUE = set
    now,                  \* the clock read by Date.now() / new Date()
    trackingCache,        \* Map cacheKey -> [data, expiry]
    liveUsers,            \* Map socket.id -> LiveUser, in insertion order
    amazonSessionActive,  \* part_000: the process-wide session flag
    sockets,              \* socket.id -> "new" | "connected" | "disconnected"
    requests,             \* in-flight /api/track handlers, one per slot
    lastResponse,         \* the /api/track call the last step completed
    freshCalls,           \* history: cacheKey -> the call that stored it
    failedKeys,           \* history: keys whose latest call failed, with no
                          \*   entry stored while that call was in flight
    challenged,           \* history: a login has detected a second-factor
                          \*   or bot-verification challenge
    emitted,              \* the events sent by the last handler step
    lastOp,               \* the last handler step: [op, who, arg]
    input,                \* pure-function harness: the argument
    output                \* pure-function harness: the value returned

vars == <<build, env, now, trackingCache, liveUsers, amazonSessionActive,
          sockets, requests, lastResponse, freshCalls, failedKeys,
          challenged, emitted, lastOp, input, output>>

(***************************************************************************)
(* Bounds of the model.                                                    *)
(***************************************************************************)
MaxIdLen == 25
MaxTicks == 2

(***************************************************************************)
(* Characters and the regular expressions of detectCarrier.                *)
(***************************************************************************)
Digits == {"0", "1", "2", "3", "4", "5", "6", "7", "8", "9"}

UpperSeq == <<"A", "B", "C", "D", "E", "F", "G", "H", "I", "J", "K", "L", "M",
              "N", "O", "P", "Q", "R", "S", "T", "U", "V", "W", "X", "Y", "Z">>

LowerSeq == <<"a", "b", "c", "d", "e", "f", "g", "h", "i", "j", "k", "l", "m",
              "n", "o", "p", "q", "r", "s", "t", "u", "v", "w", "x", "y", "z">>

Upper == {UpperSeq[i] : i \in 1..26}

Lower == {LowerSeq[i] : i \in 1..26}

\* String.prototype.toUpperCase / toLowerCase on one ASCII character.
ToUpperChar(ch) ==
    IF ch \in Lower
    THEN UpperSeq[CHOOSE i \in 1..26 : LowerSeq[i] = ch]
    ELSE ch

ToLowerChar(ch) ==
    IF ch \in Upper
    THEN LowerSeq[CHOOSE i \in 1..26 : UpperSeq[i] = ch]
    ELSE ch

\* One character against a character class.  With the i flag the character
\* and the members of the class are compared after Canonicalize (upper
\* case): the character matches when it, its upper case or its lower case
\* is in the class.
ClassMatch(class, ch, ignoreCase) ==
    IF ignoreCase
    THEN ch \in class \/ ToUpperChar(ch) \in class \/ ToLowerChar(ch) \in class
    ELSE ch \in class

\* A pattern item: between min and max characters of a class.
Item(class, min, max) == [class |-> class, min |-> min, max |-> max]

RECURSIVE MatchFrom(_, _, _, _, _)
\* Does pat[pi..] match s[si..] up to the end of s (the pattern's "$")?
MatchFrom(pat, pi, s, si, ignoreCase) ==
    IF pi > Len(pat)
    THEN si = Len(s) + 1
    ELSE \E n \in pat[pi].min .. pat[pi].max :
            /\ si + n - 1 <= Len(s)
            /\ \A k \in 0 .. (n - 1) :
                  ClassMatch(pat[pi].class, s[si + k], ignoreCase)
            /\ MatchFrom(pat, pi + 1, s, si + n, ignoreCase)

\* RegExp.prototype.test for an anchored regular expression /^(a1|a2|..)$/,
\* given as the set of its alternatives.
RegexTest(alternatives, s, ignoreCase) ==
    \E pat \in alternatives : MatchFrom(pat, 1, s, 1, ignoreCase)

\* /^(1Z|1z)[A-Za-z0-9]{16}$/
UpsRegex ==
    { <<Item({"1"}, 1, 1), Item({"Z"}, 1, 1),
        Item(Upper \cup Lower \cup Digits, 16, 16)>>,
      <<Item({"1"}, 1, 1), Item({"z"}, 1, 1),
        Item(Upper \cup Lower \cup Digits, 16, 16)>> }

\* A FedEx expression that takes every digit string of 12 to 24 characters.
FedexRegexAnyLength == { <<Item(Digits, 12, 24)>> }

\* /^([0-9]{12}|[0-9]{15})$/
FedexRegex == { <<Item(Digits, 12, 12)>>, <<Item(Digits, 15, 15)>> }

\* /^[A-Za-z]{2}[0-9]{9}[A-Za-z]{2}$/
DhlRegex ==
    { <<Item(Upper \cup Lower, 2, 2), Item(Digits, 9, 9),
        Item(Upper \cup Lower, 2, 2)>> }

\* /^9[2-5][0-9]{20,22}$/
UspsRegex ==
    { <<Item({"9"}, 1, 1), Item({"2", "3", "4", "5"}, 1, 1),
        Item(Digits, 20, 22)>> }

\* /^[0-9A-Z]{3}-[0-9A-Z]{7}-[0-9A-Z]{7}$/
AmazonRegex ==
    { <<Item(Digits \cup Upper, 3, 3), Item({"-"}, 1, 1),
        Item(Digits \cup Upper, 7, 7), Item({"-"}, 1, 1),
        Item(Digits \cup Upper, 7, 7)>> }

\* JavaScript's null, as returned by detectCarrier.
null == "null"

\* The i flag: part_000 sets it on the UPS, DHL and Amazon expressions,
\* server.js sets it on none.
IgnoreCase(b) == b = "part_000"

detectCarrier(b, trackingNumber) ==
    IF RegexTest(UpsRegex, trackingNumber, IgnoreCase(b)) THEN "ups"
    ELSE IF RegexTest(FedexRegex, trackingNumber, FALSE) THEN "fedex"
    ELSE IF RegexTest(DhlRegex, trackingNumber, IgnoreCase(b)) THEN "dhl"
    ELSE IF RegexTest(UspsRegex, trackingNumber, FALSE) THEN "usps"
    ELSE IF RegexTest(AmazonRegex, trackingNumber, IgnoreCase(b)) THEN "amazon"
    ELSE null

(***************************************************************************)
(* Time.                                                                   *)
(***************************************************************************)
\* 24 * 3600 * 1000, as written in getGenericTracking.
DAY == 24 * 3600 * 1000

CACHE_TTL == 10 * 60 * 1000

\* The clock advances in steps of five minutes, from ten minutes before a
\* midnight, so that a cache entry can be read before and at its
\* expiry and so that "today" changes during a run.
TickMs == 5 * 60 * 1000

StartTime == 10 * DAY - 2 * TickMs

\* Date.prototype.toLocaleDateString: the calendar date, as the number of
\* the day (the process runs in UTC).
toLocaleDateString(t) == t \div DAY

\* now.setDate(now.getDate() + 1): the same time on the next calendar day.
setDateTomorrow(t) == t + DAY

(***************************************************************************)
(* getGenericTracking.                                                     *)
(***************************************************************************)
\* A value that may be null and is otherwise a record is a sequence of at
\* most one element; geo is the only such value.
NullGeo == <<>>

Geo(lat, lon) == <<[lat |-> lat, lon |-> lon]>>

locations == <<"Los Angeles, CA", "Denver, CO", "Chicago, IL", "New York, NY">>

geoCoords(location) ==
    CASE location = "Los Angeles, CA" -> Geo("34.05", "-118.24")
      [] location = "Denver, CO"      -> Geo("39.73", "-104.99")
      [] location = "Chicago, IL"     -> Geo("41.87", "-87.62")
      [] location = "New York, NY"    -> Geo("40.71", "-74.00")

\* String.prototype.toUpperCase on a carrier tag.
toUpperCase(carrier) ==
    CASE carrier = "ups"    -> "UPS"
      [] carrier = "fedex"  -> "FEDEX"
      [] carrier = "dhl"    -> "DHL"
      [] carrier = "usps"   -> "USPS"
      [] carrier = "amazon" -> "AMAZON"

\* Array.prototype.reverse.
Reverse(s) == [i \in 1..Len(s) |-> s[Len(s) + 1 - i]]

ActivityEvent(status, location, timestamp) ==
    [status |-> status, location |-> location, timestamp |-> timestamp,
     geo |-> geoCoords(location)]

\* A fourth stop that is stamped a day ahead while the package is in transit.
FinalStopAhead(delivered, t) ==
    [status |-> IF delivered THEN "Delivered" ELSE "Out for delivery",
     location |-> locations[Len(locations)],
     timestamp |-> IF delivered THEN t ELSE t + DAY,
     geo |-> geoCoords(locations[Len(locations)])]

\* The fourth stop pushed onto the activity list.
FinalStop(delivered, t) ==
    ActivityEvent(IF delivered THEN "Delivered" ELSE "Out for delivery",
                  locations[Len(locations)], t)

\* The list as built, before it is reversed.
BuiltActivity(delivered, t) ==
    << ActivityEvent("Package received by carrier", locations[1], t - 3 * DAY),
       ActivityEvent("Departed from facility", locations[2], t - 2 * DAY),
       ActivityEvent("Arrived at destination hub", locations[3], t - 1 * DAY),
       FinalStop(delivered, t) >>

\* The activity returned in the order in which it was built.
NotReversed(delivered, t) == BuiltActivity(delivered, t)

\* The activity of the returned object: activity.reverse().
ReturnedActivity(delivered, t) == Reverse(BuiltActivity(delivered, t))

EstimatedDelivery(delivered, t) ==
    IF delivered
    THEN toLocaleDateString(t)
    ELSE toLocaleDateString(setDateTomorrow(t))

\* delivered is the outcome of Math.random() > 0.5, t the value of new Date().
getGenericTracking(carrier, trackingNumber, delivered, t) ==
    [carrier |-> toUpperCase(carrier),
     trackingNumber |-> trackingNumber,
     status |-> IF delivered THEN "Delivered" ELSE "In Transit",
     estimatedDelivery |-> EstimatedDelivery(delivered, t),
     activity |-> ReturnedActivity(delivered, t)]

(***************************************************************************)
(* The live tracker: sockets, liveUsers and the events sent.               *)
(***************************************************************************)
Builds == {"server.js", "part_000"}

SocketIds == {"s1", "s2", "s3"}

Usernames == {"alice", "bob"}

\* The payloads of send-location: {latitude, longitude}.
LocationData == { [latitude |-> "48.85", longitude |-> "2.35"],
                  [latitude |-> "52.52", longitude |-> "13.40"] }

ChatTexts == {"hello"}

\* The sockets of the default namespace: the recipients of io.emit.
Connected == {c \in SocketIds : sockets[c] = "connected"}

\* Map.prototype.has / get / set / delete / values on liveUsers, a Map keyed
\* by socket.id: a sequence of entries [key, value].  A Map keeps its keys in
\* insertion order, and set on a present key keeps its place.
MapHas(map, key) == \E i \in 1..Len(map) : map[i].key = key

MapIndex(map, key) == CHOOSE i \in 1..Len(map) : map[i].key = key

MapGet(map, key) == map[MapIndex(map, key)].value

\* A Map.set that always adds an entry, also under a key the Map has.
MapSetAppend(map, key, value) == Append(map, [key |-> key, value |-> value])

MapSet(map, key, value) ==
    IF MapHas(map, key)
    THEN [map EXCEPT ![MapIndex(map, key)].value = value]
    ELSE Append(map, [key |-> key, value |-> value])

\* A delete that removes the oldest entry, whatever the key.
MapDeleteFirst(map, key) == IF map = <<>> THEN map ELSE Tail(map)

\* A delete that leaves the entry in the Map.
MapKeep(map, key) == map

MapDelete(map, key) ==
    IF MapHas(map, key)
    THEN [i \in 1..(Len(map) - 1) |->
             IF i < MapIndex(map, key) THEN map[i] ELSE map[i + 1]]
    ELSE map

\* Array.from(liveUsers.values())
MapValues(map) == [i \in 1..Len(map) |-> map[i].value]

\* `https://i.pravatar.cc/40?u=${socket.id}`
Avatar(id) == "https://i.pravatar.cc/40?u=" \o id

\* A record whose id is taken from the username instead of socket.id.
JoinRecordByName(b, id, username) ==
    [id |-> username, username |-> username, avatar |-> Avatar(id),
     latitude |-> null, longitude |-> null]

\* The record join stores: server.js line 41, part_000 line 43.
JoinRecord(b, id, username) ==
    IF b = "server.js"
    THEN [id |-> id, username |-> username, avatar |-> Avatar(id)]
    ELSE [id |-> id, username |-> username, avatar |-> Avatar(id),
          latitude |-> null, longitude |-> null]

\* userData.latitude = ...; userData.longitude = ... on a stored record.
WithLocation(userData, data) ==
    [f \in DOMAIN userData \cup {"latitude", "longitude"} |->
        IF f = "latitude" THEN data.latitude
        ELSE IF f = "longitude" THEN data.longitude
        ELSE userData[f]]

\* One emit call: the event, the set of sockets it goes to, its payload.
Emit(ev, to, data) == [ev |-> ev, to |-> to, data |-> data]

\* socket.emit / socket.broadcast.emit / io.emit
ToSender(c) == {c}

\* A broadcast that also reaches the socket it is sent from.
ToEveryone(c) == Connected

ToOthers(c) == Connected \ {c}

ToAll == Connected

Op(op, who, arg) == [op |-> op, who |-> who, arg |-> arg]

Unknown == [username |-> "Unknown", avatar |-> ""]

trackVars == <<trackingCache, amazonSessionActive, requests, freshCalls,
               failedKeys, challenged>>

\* No /api/track call completed in the last step.
NoResponse ==
    [trackingNumber |-> <<>>, carrier |-> null, status |-> 0, body |-> <<>>,
     source |-> "none", thrown |-> <<>>, replaced |-> 0, previous |-> <<>>,
     overlapped |-> FALSE, strategyCalls |-> 0, broadcasts |-> 0]

harnessVars == <<input, output>>

\* A new connection.  part_000 sends the snapshot here (line 39); server.js
\* sends nothing.
Connect(c) ==
    /\ sockets[c] = "new"
    /\ sockets' = [sockets EXCEPT ![c] = "connected"]
    /\ emitted' = IF build = "part_000"
                  THEN <<Emit("current_users", ToSender(c), MapValues(liveUsers))>>
                  ELSE <<>>
    /\ lastOp' = Op("connection", c, "")
    /\ lastResponse' = NoResponse
    /\ UNCHANGED <<build, env, now, liveUsers, trackVars, harnessVars>>

\* socket.on('join')
JoinEmits(b, c, users) ==
    IF b = "server.js"
    THEN << Emit("current_users", ToSender(c), MapValues(users)),
            Emit("user_joined", ToOthers(c), MapGet(users, c)) >>
    ELSE << Emit("user_joined", ToOthers(c), MapGet(users, c)) >>

Join(c, username) ==
    /\ sockets[c] = "connected"
    /\ liveUsers' = MapSet(liveUsers, c, JoinRecord(build, c, username))
    /\ emitted' = JoinEmits(build, c, liveUsers')
    /\ lastOp' = Op("join", c, username)
    /\ lastResponse' = NoResponse
    /\ UNCHANGED <<build, env, now, sockets, trackVars, harnessVars>>

\* socket.on("send-location")
SendLocation(c, data) ==
    /\ sockets[c] = "connected"
    /\ IF MapHas(liveUsers, c)
       THEN /\ liveUsers' = MapSet(liveUsers, c,
                                   WithLocation(MapGet(liveUsers, c), data))
            /\ emitted' = <<Emit("receive-location", ToOthers(c),
                                 MapGet(liveUsers', c))>>
       ELSE /\ liveUsers' = liveUsers
            /\ emitted' = <<>>
    /\ lastOp' = Op("send-location", c, data)
    /\ lastResponse' = NoResponse
    /\ UNCHANGED <<build, env, now, sockets, trackVars, harnessVars>>

\* A chat user that is never replaced by the placeholder.
ChatUserStored(users, c) ==
    IF MapHas(users, c) THEN MapGet(users, c) ELSE [username |-> "", avatar |-> ""]

\* socket.on('send_chat_message')
ChatUser(users, c) == IF MapHas(users, c) THEN MapGet(users, c) ELSE Unknown

ChatRecipients == ToAll

SendChatMessage(c, message) ==
    /\ sockets[c] = "connected"
    /\ emitted' = <<Emit("receive_chat_message", ChatRecipients,
                         [user |-> ChatUser(liveUsers, c),
                          message |-> message,
                          timestamp |-> now])>>
    /\ lastOp' = Op("send_chat_message", c, message)
    /\ lastResponse' = NoResponse
    /\ UNCHANGED <<build, env, now, sockets, liveUsers, trackVars, harnessVars>>

\* socket.on("disconnect"): socket.io has removed the socket from the
\* namespace before the handler runs, so io.emit does not reach it.
Disconnect(c) ==
    /\ sockets[c] = "connected"
    /\ sockets' = [sockets EXCEPT ![c] = "disconnected"]
    /\ IF MapHas(liveUsers, c)
       THEN /\ emitted' = <<Emit("user_disconnected", Connected \ {c}, c)>>
            /\ liveUsers' = MapDelete(liveUsers, c)
       ELSE /\ emitted' = <<>>
            /\ liveUsers' = liveUsers
    /\ lastOp' = Op("disconnect", c, "")
    /\ lastResponse' = NoResponse
    /\ UNCHANGED <<build, env, now, trackVars, harnessVars>>

(***************************************************************************)
(* POST /api/track: the cache, the responses and the synchronous paths.    *)
(***************************************************************************)
\* The handlers that can be in flight at once.  A new call takes the lowest
\* free slot: which slot holds a handler is bookkeeping, not program state.
RequestSlots == {1, 2}

\* req.body.trackingNumber when the body has none.
undefined == <<"undefined">>

\* The identifiers submitted to /api/track in the model.
EmptyId == <<>>

NotACode == <<"n", "o", "t", "-", "a", "-", "c", "o", "d", "e">>

UpsId == <<"1", "Z", "1", "2", "3", "4", "5", "6", "7", "8", "9", "0", "1", "2", "3", "4", "A", "B">>

AmazonId == <<"A", "B", "C", "-", "1", "2", "3", "4", "5", "6", "7", "-", "1", "2", "3", "4", "5", "6", "7">>

TrackIds == {undefined, EmptyId, NotACode, UpsId, AmazonId}

\* detectCarrier on the identifiers of the model, computed once.
DetectedCarrier ==
    [b \in Builds, id \in TrackIds \ {undefined} |-> detectCarrier(b, id)]

\* A test for a missing tracking number that lets the empty string through.
OnlyUndefined(trackingNumber) == trackingNumber = undefined

\* !trackingNumber
Falsy(trackingNumber) == trackingNumber = undefined \/ trackingNumber = EmptyId

\* `${carrier}:${trackingNumber}`
cacheKey(carrier, trackingNumber) == <<carrier, ":">> \o trackingNumber

\* A cache test that still serves an entry at the instant of its expiry.
CacheLiveAtExpiry(cache, key, t) == key \in DOMAIN cache /\ cache[key].expiry >= t

\* trackingCache.has(cacheKey) && trackingCache.get(cacheKey).expiry > Date.now()
CacheLive(cache, key, t) == key \in DOMAIN cache /\ cache[key].expiry > t

\* The entry stored after a fresh fetch.
CacheEntry(data, t) == [data |-> data, expiry |-> t + CACHE_TTL]

\* A set that keeps the entry a key already has.
CacheSetIfAbsent(cache, key, entry) ==
    [k \in DOMAIN cache \cup {key} |->
        IF k \in DOMAIN cache THEN cache[k] ELSE entry]

\* trackingCache.set(cacheKey, entry)
CacheSet(cache, key, entry) ==
    [k \in DOMAIN cache \cup {key} |-> IF k = key THEN entry ELSE cache[k]]

\* Error messages are sequences of string fragments, so that a message
\* built around another string is their concatenation.
MissingMessage == <<"Tracking number is required.">>

\* `Could not detect carrier for "${trackingNumber}".`
NotDetectedMessage(trackingNumber) ==
    <<"Could not detect carrier for \"">> \o trackingNumber \o <<"\".">>

NotConfiguredMessage == <<"Server is not configured for Amazon tracking.">>

DefaultErrorMessage == <<"An error occurred while tracking.">>

\* A 500 body that hides the message of the error behind the default one.
ErrorBodyDefault(message) == [error |-> DefaultErrorMessage]

\* res.status(500).json({ error: error.message || '...' })
ErrorBody(message) ==
    [error |-> IF message = <<>> THEN DefaultErrorMessage ELSE message]

\* { trackingNumber, carrier, ...trackingData }: the spread comes last and
\* overwrites the two keys that trackingData also has.
TrackingUpdatePayload(trackingNumber, carrier, trackingData) ==
    [f \in {"trackingNumber", "carrier"} \cup DOMAIN trackingData |->
        IF f \in DOMAIN trackingData THEN trackingData[f]
        ELSE IF f = "trackingNumber" THEN trackingNumber
        ELSE carrier]

\* What a successful fresh fetch emits: part_000 line 106; server.js has no
\* such line.
FreshEmits(b, trackingNumber, carrier, trackingData) ==
    IF b = "part_000"
    THEN <<Emit("tracking_update", ToAll,
                TrackingUpdatePayload(trackingNumber, carrier, trackingData))>>
    ELSE <<>>

Idle == [pc |-> "idle", trackingNumber |-> <<>>, carrier |-> null,
         overlapped |-> FALSE]

InFlight == {r \in RequestSlots : requests[r].pc # "idle"}

\* The expiry of the entry that a store under this key overwrites; 0 when
\* the key has no entry.
ExpiryOf(cache, key) == IF key \in DOMAIN cache THEN cache[key].expiry ELSE 0

\* The record kept of a completed call: what was asked, what was answered
\* and from where (source: "cache", "fresh" or "none"), the message the
\* carrier strategy threw, the expiry and the data of the entry a fresh
\* result replaced, whether another call stored under the key while this
\* one was in flight, and how often the call invoked a carrier strategy and
\* emitted tracking_update.
Response(req, status, body, source, thrown, strategyCalls, broadcasts) ==
    [trackingNumber |-> req.trackingNumber, carrier |-> req.carrier,
     status |-> status, body |-> body, source |-> source, thrown |-> thrown,
     replaced |-> IF source = "fresh"
                  THEN ExpiryOf(trackingCache,
                                cacheKey(req.carrier, req.trackingNumber))
                  ELSE 0,
     previous |-> IF /\ source = "fresh"
                     /\ cacheKey(req.carrier, req.trackingNumber)
                           \in DOMAIN trackingCache
                  THEN <<trackingCache[cacheKey(req.carrier,
                                                req.trackingNumber)].data>>
                  ELSE <<>>,
     overlapped |-> req.overlapped,
     strategyCalls |-> strategyCalls, broadcasts |-> broadcasts]

\* The record kept of the call that stored a cache entry.
FreshCall(response, t) ==
    [body |-> response.body, storedAt |-> t,
     strategyCalls |-> response.strategyCalls,
     broadcasts |-> response.broadcasts]

\* The call in slot r completes.  When it stored an entry, the other calls
\* in flight for the same key are marked as overlapped by a store.
Finish(r, response) ==
    /\ lastResponse' = response
    /\ requests' =
          [q \in RequestSlots |->
              IF q = r THEN Idle
              ELSE IF /\ response.source = "fresh"
                      /\ requests[q].pc # "idle"
                      /\ requests[q].trackingNumber = response.trackingNumber
              THEN [requests[q] EXCEPT !.overlapped = TRUE]
              ELSE requests[q]]

liveVars == <<sockets, liveUsers>>

\* A 400: the handler returns before it has a cache key.
TrackRejects(r, req, message) ==
    /\ Finish(r, Response(req, 400, [error |-> message], "none", <<>>, 0, 0))
    /\ emitted' = <<>>
    /\ UNCHANGED <<trackingCache, freshCalls, failedKeys>>

\* Lines 90-93: the entry is served.
TrackHits(r, req) ==
    LET key == cacheKey(req.carrier, req.trackingNumber)
    IN  /\ Finish(r, Response(req, 200, trackingCache[key].data, "cache",
                              <<>>, 0, 0))
        /\ emitted' = <<>>
        /\ failedKeys' = failedKeys \ {key}
        /\ UNCHANGED <<trackingCache, freshCalls>>

\* The catch block of the handler: no cache write, no emit, a 500.
TrackFails(r, req, message) ==
    /\ Finish(r, Response(req, 500, ErrorBody(message), "none", message, 1, 0))
    /\ emitted' = <<>>
    /\ trackingCache' = trackingCache
    /\ freshCalls' = freshCalls
    /\ failedKeys' = IF req.overlapped THEN failedKeys
                      ELSE failedKeys \cup {cacheKey(req.carrier,
                                                     req.trackingNumber)}

\* Lines 104-107 of part_000 (104-105 of server.js): store, push, respond.
TrackStores(r, req, trackingData) ==
    LET key == cacheKey(req.carrier, req.trackingNumber)
    IN  /\ trackingCache' = CacheSet(trackingCache, key,
                                     CacheEntry(trackingData, now))
        /\ emitted' = FreshEmits(build, req.trackingNumber, req.carrier,
                                 trackingData)
        /\ Finish(r, Response(req, 200, trackingData, "fresh", <<>>, 1,
                              Len(emitted')))
        /\ freshCalls' = CacheSet(freshCalls, key, FreshCall(lastResponse', now))
        /\ failedKeys' = failedKeys \ {key}

\* Does the fresh fetch of this carrier suspend the handler at a network
\* await?  Only getAmazonTrackingWithLogin does; getGenericTracking and the
\* getAmazonTracking of server.js have no await, so the handler resumes in
\* the same turn of the event loop.
Suspends(b, carrier) == b = "part_000" /\ carrier = "amazon"

\* getAmazonTracking of server.js: TRUE when it throws.
AmazonNotConfigured(e) == ~e.AMZ_USER

(***************************************************************************)
(* part_000: the Amazon session and getAmazonTrackingWithLogin.            *)
(***************************************************************************)
\* String.prototype.toLowerCase, includes and trim on a character sequence.
toLowerCase(s) == [i \in 1..Len(s) |-> ToLowerChar(s[i])]

includes(s, sub) ==
    \E i \in 1..(Len(s) - Len(sub) + 1) : SubSeq(s, i, i + Len(sub) - 1) = sub

WhiteSpace == {" ", "\t", "\n"}

RECURSIVE trim(_)
trim(s) ==
    IF s = <<>> THEN s
    ELSE IF Head(s) \in WhiteSpace THEN trim(Tail(s))
    ELSE IF s[Len(s)] \in WhiteSpace THEN trim(SubSeq(s, 1, Len(s) - 1))
    ELSE s

geocodeLocation(locationString) ==
    IF locationString = <<>> THEN NullGeo
    ELSE IF includes(toLowerCase(locationString), <<"l", "o", "s", " ", "a", "n", "g", "e", "l", "e", "s">>)
    THEN Geo("34.05", "-118.24")
    ELSE IF includes(toLowerCase(locationString), <<"c", "h", "i", "c", "a", "g", "o">>)
    THEN Geo("41.87", "-87.62")
    ELSE IF includes(toLowerCase(locationString), <<"n", "e", "w", " ", "y", "o", "r", "k">>)
    THEN Geo("40.71", "-74.00")
    ELSE IF includes(toLowerCase(locationString), <<"m", "e", "m", "p", "h", "i", "s">>)
    THEN Geo("35.1495", "-90.0490")
    ELSE NullGeo

\* document.querySelector(...): no element is <<>>, an element is the
\* one-element sequence of its textContent.
NoElement == <<>>

Element(textContent) == <<textContent>>

\* element ? element.textContent.trim() : fallback
TextOrElse(element, fallback) ==
    IF element = NoElement THEN fallback ELSE trim(element[1])

\* element?.textContent.trim() || fallback
TextOr(element, fallback) ==
    IF element = NoElement \/ trim(element[1]) = <<>>
    THEN fallback
    ELSE trim(element[1])

StatusNotFound == <<"S", "t", "a", "t", "u", "s", " ", "n", "o", "t", " ", "f", "o", "u", "n", "d">>

\* The first selector of eventSelectors that yields nodes; the nodes of the
\* last one when none does.
RECURSIVE FirstNonEmpty(_)
FirstNonEmpty(nodeLists) ==
    IF Len(nodeLists) = 1 \/ Head(nodeLists) # <<>>
    THEN Head(nodeLists)
    ELSE FirstNonEmpty(Tail(nodeLists))

\* One pushed activity entry, from one event card.
ParsedEvent(eventCard) ==
    LET description == TextOr(eventCard.description, <<"E", "v", "e", "n", "t", " ", "d", "e", "t", "a", "i", "l", "s", " ", "m", "i", "s", "s", "i", "n", "g">>)
        location == TextOr(eventCard.location, <<>>)
        timestamp == TextOr(eventCard.timestamp, <<>>)
    IN  [status |-> IF location # <<>> THEN location ELSE description,
         description |-> description,
         location |-> location,
         timestamp |-> timestamp,
         geo |-> geocodeLocation(location)]

ParsedActivity(page) ==
    LET eventNodes == FirstNonEmpty(page.eventNodes)
    IN  [i \in 1..Len(eventNodes) |-> ParsedEvent(eventNodes[i])]

\* No entry at all when no event card was found.
NothingSynthesized(statusText, t) == <<>>

\* The single entry returned when no event card was found.
SynthesizedActivity(statusText, t) ==
    << [status |-> statusText,
        description |-> <<"C", "u", "r", "r", "e", "n", "t", " ", "s", "t", "a", "t", "u", "s", ":", " ">> \o statusText,
        location |-> <<>>,
        timestamp |-> t,
        geo |-> NullGeo] >>

\* Lines 278-332: the object built from the order-details page.
AmazonResult(page, orderId, t) ==
    LET statusText == TextOrElse(page.statusElement, StatusNotFound)
        activity == ParsedActivity(page)
    IN  [carrier |-> TextOrElse(page.carrierInfoElement, <<"A", "m", "a", "z", "o", "n", " ", "L", "o", "g", "i", "s", "t", "i", "c", "s">>),
         trackingNumber |-> orderId,
         status |-> statusText,
         estimatedDelivery |-> TextOrElse(page.estimateElement, <<"N", "/", "A">>),
         activity |-> IF Len(activity) > 0 THEN Reverse(activity)
                      ELSE SynthesizedActivity(statusText, t)]

EventCard(description, location, timestamp) ==
    [description |-> description, location |-> location, timestamp |-> timestamp]

\* The order-details pages the provider answers with in the model: a page
\* with two event cards under the second selector, a page with a status
\* and no event card, and a page with neither.
FullPage ==
    [statusElement |-> Element(<<" ", "S", "h", "i", "p", "p", "e", "d", " ">>),
     estimateElement |-> Element(<<"F", "r", "i", "d", "a", "y">>),
     carrierInfoElement |-> Element(<<"U", "P", "S">>),
     eventNodes |-> << <<>>,
                       << EventCard(Element(<<"A", "r", "r", "i", "v", "e", "d">>), Element(<<"M", "E", "M", "P", "H", "I", "S", ",", " ", "T", "N">>),
                                    Element(<<"M", "a", "y", " ", "2">>)),
                          EventCard(Element(<<"L", "a", "b", "e", "l", " ", "c", "r", "e", "a", "t", "e", "d">>), NoElement,
                                    Element(<<"M", "a", "y", " ", "1">>)) >>,
                       <<>> >>]

StatusOnlyPage ==
    [statusElement |-> Element(<<"S", "h", "i", "p", "p", "e", "d">>),
     estimateElement |-> NoElement,
     carrierInfoElement |-> NoElement,
     eventNodes |-> << <<>>, <<>>, <<>> >>]

BlankPage ==
    [statusElement |-> NoElement,
     estimateElement |-> NoElement,
     carrierInfoElement |-> NoElement,
     eventNodes |-> << <<>>, <<>>, <<>> >>]

DetailPages == {FullPage, StatusOnlyPage, BlankPage}

\* What an axios call resolves or rejects with.  A resolved response is
\* described by what the code reads of it: whether the document has a
\* form[name="signIn"], and which of the substrings the code looks for its
\* body includes.
NetworkErrorMessages == {<<"Network Error">>}

Rejected == {[ok |-> FALSE, message |-> m] : m \in NetworkErrorMessages}

Resolved(texts) ==
    {[ok |-> TRUE, form |-> f, text |-> t] : f \in BOOLEAN, t \in SUBSET texts}

FormResponses == Rejected \cup Resolved({})

\* The body of a page with the form is not looked at.
EmailResponses ==
    Rejected \cup Resolved({})
             \cup {r \in Resolved({"Enter your password", "auth-mfa-otpcode",
                                   "/errors/validateCaptcha"}) : ~r.form}

PasswordResponses == Rejected \cup {[ok |-> TRUE, form |-> FALSE, text |-> {}]}

VerifyResponses ==
    Rejected \cup {r \in Resolved({"redirectGet", "/ap/signin"}) : ~r.form}

DetailResponses == Rejected \cup {[ok |-> TRUE, page |-> p] : p \in DetailPages}

CredentialsMessage ==
    <<"Amazon credentials (AMZ_USER, AMZ_PASS) not configured in .env file.">>

NoFormMessage == <<"Could not find Amazon login form (initial attempt).">>

\* extractHiddenInputs(null): form.querySelectorAll on null.
NullFormMessage ==
    <<"Cannot read properties of null (reading 'querySelectorAll')">>

MfaMessage ==
    <<"Amazon MFA/OTP required. Automated login with OTP is complex and not implemented in this demo. Please resolve on Amazon's website.">>

CaptchaMessage ==
    <<"Amazon Captcha challenge. Please resolve on Amazon's website.">>

FlowChangedMessage ==
    <<"Amazon login flow changed or encountered an unexpected page after email submission.">>

VerificationMessage ==
    <<"Amazon login failed. Check credentials or solve potential Captcha/MFA on Amazon's website.">>

\* `Amazon login process failed: ${error.message}`
LoginFailedMessage(message) == <<"Amazon login process failed: ">> \o message

\* The handler stays suspended at the next await.
Suspend(r, req, pc) ==
    /\ requests' = [requests EXCEPT ![r] = [req EXCEPT !.pc = pc]]
    /\ lastResponse' = NoResponse
    /\ emitted' = <<>>
    /\ UNCHANGED <<trackingCache, freshCalls, failedKeys>>

\* The catch block of ensureAmazonSession (lines 252-259), then the catch
\* block of the handler.
LoginError(r, req, message) ==
    /\ amazonSessionActive' = FALSE
    /\ challenged' = (challenged \/ message \in {MfaMessage, CaptchaMessage})
    /\ TrackFails(r, req, LoginFailedMessage(message))

\* A single-flight variant of AmazonBegin: a fetch that begins while another
\* handler is inside a login waits for that login and goes on to the
\* order-details request without a login of its own.
AmazonBeginSingleFlight(r, req) ==
    IF \/ amazonSessionActive
       \/ \E q \in RequestSlots :
             requests[q].pc \in {"signin", "orderHistory", "email",
                                 "password", "verify"}
    THEN /\ Suspend(r, req, "detail")
         /\ UNCHANGED <<amazonSessionActive, challenged>>
    ELSE IF ~env.AMZ_USER \/ ~env.AMZ_PASS
    THEN /\ TrackFails(r, req, CredentialsMessage)
         /\ UNCHANGED <<amazonSessionActive, challenged>>
    ELSE /\ Suspend(r, req, "signin")
         /\ UNCHANGED <<amazonSessionActive, challenged>>

\* getAmazonTrackingWithLogin up to its first await: lines 263-272 and
\* ensureAmazonSession lines 173-186.
AmazonBegin(r, req) ==
    IF amazonSessionActive
    THEN /\ Suspend(r, req, "detail")
         /\ UNCHANGED <<amazonSessionActive, challenged>>
    ELSE IF ~env.AMZ_USER \/ ~env.AMZ_PASS
    THEN /\ TrackFails(r, req, CredentialsMessage)
         /\ UNCHANGED <<amazonSessionActive, challenged>>
    ELSE /\ Suspend(r, req, "signin")
         /\ UNCHANGED <<amazonSessionActive, challenged>>

\* The handler in slot r resumes at the await it was suspended at, with the
\* response that the await yields.
AmazonStep(r, pc, name, response) ==
    /\ requests[r].pc = pc
    /\ lastOp' = Op(name, r, response)
    /\ UNCHANGED <<build, env, now, liveVars, harnessVars>>

\* Lines 186-199: the sign-in page arrives.
AmazonSignin(r, response) ==
    /\ AmazonStep(r, "signin", "amazon-signin", response)
    /\ IF ~response.ok
       THEN LoginError(r, requests[r], response.message)
       ELSE /\ Suspend(r, requests[r],
                       IF response.form THEN "email" ELSE "orderHistory")
            /\ UNCHANGED <<amazonSessionActive, challenged>>

\* Lines 194-199: the order-history page, asked for when the sign-in page
\* had no form.
AmazonOrderHistory(r, response) ==
    /\ AmazonStep(r, "orderHistory", "amazon-order-history", response)
    /\ IF ~response.ok
       THEN LoginError(r, requests[r], response.message)
       ELSE IF ~response.form
       THEN LoginError(r, requests[r], NoFormMessage)
       ELSE /\ Suspend(r, requests[r], "email")
            /\ UNCHANGED <<amazonSessionActive, challenged>>

\* Lines 214-238: the answer to the submitted email.
EmailError(response) ==
    IF "Enter your password" \in response.text THEN NullFormMessage
    ELSE IF "auth-mfa-otpcode" \in response.text THEN MfaMessage
    ELSE IF "/errors/validateCaptcha" \in response.text THEN CaptchaMessage
    ELSE FlowChangedMessage

AmazonEmail(r, response) ==
    /\ AmazonStep(r, "email", "amazon-email", response)
    /\ IF ~response.ok
       THEN LoginError(r, requests[r], response.message)
       ELSE IF ~response.form
       THEN LoginError(r, requests[r], EmailError(response))
       ELSE /\ Suspend(r, requests[r], "password")
            /\ UNCHANGED <<amazonSessionActive, challenged>>

\* Lines 238-241: the answer to the submitted password.
AmazonPassword(r, response) ==
    /\ AmazonStep(r, "password", "amazon-password", response)
    /\ IF ~response.ok
       THEN LoginError(r, requests[r], response.message)
       ELSE /\ Suspend(r, requests[r], "verify")
            /\ UNCHANGED <<amazonSessionActive, challenged>>

\* Lines 241-250 and 272-276: the verification page.
AmazonVerify(r, response) ==
    /\ AmazonStep(r, "verify", "amazon-verify", response)
    /\ IF ~response.ok
       THEN LoginError(r, requests[r], response.message)
       ELSE IF "redirectGet" \in response.text \/ "/ap/signin" \in response.text
       THEN LoginError(r, requests[r], VerificationMessage)
       ELSE /\ amazonSessionActive' = TRUE
            /\ challenged' = challenged
            /\ Suspend(r, requests[r], "detail")

\* Lines 276-332 and 105-112: the order-details page.
AmazonDetail(r, response) ==
    /\ AmazonStep(r, "detail", "amazon-detail", response)
    /\ UNCHANGED <<amazonSessionActive, challenged>>
    /\ IF ~response.ok
       THEN TrackFails(r, requests[r], response.message)
       ELSE TrackStores(r, requests[r],
                        AmazonResult(response.page,
                                     requests[r].trackingNumber, now))

\* The handler from its first line to its first network await, or to its
\* response when it has none.
Track(r, trackingNumber, delivered) ==
    LET carrier == IF Falsy(trackingNumber) THEN null
                   ELSE DetectedCarrier[build, trackingNumber]
        key == cacheKey(carrier, trackingNumber)
        req == [pc |-> "start", trackingNumber |-> trackingNumber,
                carrier |-> carrier, overlapped |-> FALSE]
    IN  /\ requests[r].pc = "idle"
        /\ \A q \in RequestSlots : q < r => requests[q].pc # "idle"
        /\ lastOp' = Op("track", r, trackingNumber)
        /\ IF Falsy(trackingNumber)
           THEN /\ TrackRejects(r, req, MissingMessage)
                /\ UNCHANGED <<amazonSessionActive, challenged>>
           ELSE IF carrier = null
           THEN /\ TrackRejects(r, req, NotDetectedMessage(trackingNumber))
                /\ UNCHANGED <<amazonSessionActive, challenged>>
           ELSE IF CacheLive(trackingCache, key, now)
           THEN /\ TrackHits(r, req)
                /\ UNCHANGED <<amazonSessionActive, challenged>>
           ELSE IF ~Suspends(build, carrier)
           THEN /\ IF carrier = "amazon" /\ AmazonNotConfigured(env)
                   THEN TrackFails(r, req, NotConfiguredMessage)
                   ELSE TrackStores(r, req,
                            getGenericTracking(carrier, trackingNumber,
                                               delivered, now))
                /\ UNCHANGED <<amazonSessionActive, challenged>>
           ELSE AmazonBegin(r, req)
        /\ UNCHANGED <<build, env, now, liveVars, harnessVars>>

(***************************************************************************)
(* The clock, the initial state and the specifications.                    *)
(***************************************************************************)
Ticks == (now - StartTime) \div TickMs

Tick ==
    /\ Ticks < MaxTicks
    /\ now' = now + TickMs
    /\ emitted' = <<>>
    /\ lastOp' = Op("tick", 0, "")
    /\ lastResponse' = NoResponse
    /\ UNCHANGED <<build, env, liveVars, trackVars, harnessVars>>

Environments == [AMZ_USER : BOOLEAN, AMZ_PASS : BOOLEAN]

Configured == [AMZ_USER |-> TRUE, AMZ_PASS |-> TRUE]

\* The state of a process that has just started: lines 29-32 and 171.
Started ==
    /\ now = StartTime
    /\ trackingCache = <<>>
    /\ liveUsers = <<>>
    /\ amazonSessionActive = FALSE
    /\ requests = [r \in RequestSlots |-> Idle]
    /\ lastResponse = NoResponse
    /\ freshCalls = <<>>
    /\ failedKeys = {}
    /\ challenged = FALSE
    /\ emitted = <<>>
    /\ lastOp = Op("init", 0, "")
    /\ output = <<>>

Init ==
    /\ build \in Builds
    /\ env \in Environments
    /\ sockets = [c \in SocketIds |-> "new"]
    /\ input = <<>>
    /\ Started

LiveNext ==
    \/ \E c \in SocketIds : Connect(c)
    \/ \E c \in SocketIds, username \in Usernames : Join(c, username)
    \/ \E c \in SocketIds, data \in LocationData : SendLocation(c, data)
    \/ \E c \in SocketIds, message \in ChatTexts : SendChatMessage(c, message)
    \/ \E c \in SocketIds : Disconnect(c)

TrackNext ==
    \/ \E r \in RequestSlots, id \in TrackIds, delivered \in BOOLEAN :
          Track(r, id, delivered)
    \/ \E r \in RequestSlots, response \in FormResponses :
          AmazonSignin(r, response)
    \/ \E r \in RequestSlots, response \in FormResponses :
          AmazonOrderHistory(r, response)
    \/ \E r \in RequestSlots, response \in EmailResponses :
          AmazonEmail(r, response)
    \/ \E r \in RequestSlots, response \in PasswordResponses :
          AmazonPassword(r, response)
    \/ \E r \in RequestSlots, response \in VerifyResponses :
          AmazonVerify(r, response)
    \/ \E r \in RequestSlots, response \in DetailResponses :
          AmazonDetail(r, response)

Next == LiveNext \/ TrackNext \/ Tick

Spec == Init /\ [][Next]_vars

\* The live tracker alone: the socket handlers and the clock.  process.env
\* is read by no socket handler and is held fixed.
LiveInit == Init /\ env = Configured

LiveSpec == LiveInit /\ [][LiveNext \/ Tick]_vars

\* The tracking API alone: the /api/track handlers and the clock.  The
\* sockets send nothing; the run starts after two of the three have
\* connected, and these stay the recipients of tracking_update.
TrackInit ==
    /\ build \in Builds
    /\ env \in Environments
    /\ sockets = [c \in SocketIds |->
                     IF c \in {"s1", "s2"} THEN "connected" ELSE "new"]
    /\ input = <<>>
    /\ Started

TrackSpec == TrackInit /\ [][TrackNext \/ Tick]_vars

\* The live tracker and the tracking API side by side, to see what each
\* leaves of the other's state: every socket event, with one username and
\* one location, and one /api/track call at a time, followed through all
\* its awaits, while the clock stands still.
FrameLive ==
    \/ \E c \in SocketIds : Connect(c)
    \/ \E c \in SocketIds : Join(c, "alice")
    \/ \E c \in SocketIds :
          SendLocation(c, [latitude |-> "48.85", longitude |-> "2.35"])
    \/ \E c \in SocketIds, message \in ChatTexts : SendChatMessage(c, message)
    \/ \E c \in SocketIds : Disconnect(c)

FrameTrack ==
    \/ \E id \in TrackIds, delivered \in BOOLEAN : Track(1, id, delivered)
    \/ \E response \in FormResponses : AmazonSignin(1, response)
    \/ \E response \in FormResponses : AmazonOrderHistory(1, response)
    \/ \E response \in EmailResponses : AmazonEmail(1, response)
    \/ \E response \in PasswordResponses : AmazonPassword(1, response)
    \/ \E response \in VerifyResponses : AmazonVerify(1, response)
    \/ \E response \in DetailResponses : AmazonDetail(1, response)

FrameSpec == LiveInit /\ [][FrameLive \/ FrameTrack]_vars

\* The authenticated-provider strategy alone: every call of /api/track is
\* for the Amazon order, from either of the two handlers, and the clock
\* runs.
LoginNext ==
    \/ \E r \in RequestSlots, delivered \in BOOLEAN :
          Track(r, AmazonId, delivered)
    \/ \E r \in RequestSlots, response \in FormResponses :
          AmazonSignin(r, response)
    \/ \E r \in RequestSlots, response \in FormResponses :
          AmazonOrderHistory(r, response)
    \/ \E r \in RequestSlots, response \in EmailResponses :
          AmazonEmail(r, response)
    \/ \E r \in RequestSlots, response \in PasswordResponses :
          AmazonPassword(r, response)
    \/ \E r \in RequestSlots, response \in VerifyResponses :
          AmazonVerify(r, response)
    \/ \E r \in RequestSlots, response \in DetailResponses :
          AmazonDetail(r, response)

LoginSpec == TrackInit /\ [][LoginNext \/ Tick]_vars

(***************************************************************************)
(* detectCarrier on its own: the initial state draws a tracking number,    *)
(* the one action applies the function of the running build to it.         *)
(***************************************************************************)
\* n times the character ch.
Rep(ch, n) == [i \in 1..n |-> ch]

\* The tracking numbers drawn: the examples of the specification, and, for
\* each pattern, strings around its lengths and character classes.
ExampleIds ==
    { <<"1", "Z", "1", "2", "3", "4", "5", "6", "7", "8", "9", "0", "1", "2", "3", "4", "A", "B">>, <<"1", "2", "3", "4", "5", "6", "7", "8", "9", "0", "1", "2">>, <<"A", "B", "1", "2", "3", "4", "5", "6", "7", "8", "9", "C", "D">>,
      <<"A", "B", "C", "-", "1", "2", "3", "4", "5", "6", "7", "-", "1", "2", "3", "4", "5", "6", "7">>, <<"n", "o", "t", "-", "a", "-", "c", "o", "d", "e">>, <<>> }

DigitIds == {Rep("1", n) : n \in 0..MaxIdLen}

UspsIds ==
    {<<"9", d>> \o Rep("0", n) :
        d \in {"1", "2", "5", "6"}, n \in 19..(MaxIdLen - 2)}

UpsIds ==
    {<<"1", z>> \o Rep(c, n) :
        z \in {"Z", "z", "Y"}, c \in {"A", "a", "0", "-"}, n \in 15..17}

DhlIds ==
    {Rep(a, 2) \o Rep(d, n) \o Rep(b, 2) :
        a \in {"A", "b", "1"}, b \in {"C", "d"}, d \in {"7", "x"}, n \in 8..10}

AmazonIds ==
    {Rep(x, k) \o <<sep>> \o Rep(y, 7) \o <<"-">> \o Rep(x, 7) :
        x \in {"A", "a", "0"}, y \in {"B", "b", "1", "_"},
        sep \in {"-", ":"}, k \in 2..4}

Identifiers ==
    ExampleIds \cup DigitIds \cup UspsIds \cup UpsIds \cup DhlIds \cup AmazonIds

Pending == <<>>

Detect ==
    /\ output = Pending
    /\ output' = <<detectCarrier(build, input)>>
    /\ UNCHANGED <<build, env, now, liveVars, trackVars, lastResponse, emitted,
                   lastOp, input>>

DetectInit ==
    /\ build \in Builds
    /\ env = Configured
    /\ sockets = [c \in SocketIds |-> "new"]
    /\ input \in Identifiers
    /\ Started

DetectSpec == DetectInit /\ [][Detect]_vars

(***************************************************************************)
(* Properties of POST /api/track.                                          *)
(***************************************************************************)
\* Is this identifier one that detectCarrier gives a carrier?
Detected(id) == ~Falsy(id) /\ DetectedCarrier[build, id] # null

KeyOf(id) == cacheKey(DetectedCarrier[build, id], id)

\* This step is the first step of a call of track(id).
TrackCalled(id) == lastOp'.op = "track" /\ lastOp'.arg = id

\* Before this step a call for id has completed with a fresh result and the
\* entry it stored is less than ten minutes old.
StoredWithinTtl(id) ==
    /\ KeyOf(id) \in DOMAIN freshCalls
    /\ now < freshCalls[KeyOf(id)].storedAt + CACHE_TTL

\* The call that begins in this step is answered in this step with the
\* result the storing call returned, and the two calls together invoked the
\* carrier strategy once and emitted `broadcasts` tracking_update events.
AnsweredAsFirst(id, broadcasts) ==
    /\ lastResponse'.status = 200
    /\ lastResponse'.trackingNumber = id
    /\ lastResponse'.body = freshCalls[KeyOf(id)].body
    /\ freshCalls[KeyOf(id)].strategyCalls + lastResponse'.strategyCalls = 1
    /\ freshCalls[KeyOf(id)].broadcasts + lastResponse'.broadcasts = broadcasts

\* C1: for an identifier of a known carrier, a call of track(id) made after
\* a successful call has completed and less than 10 minutes after its entry
\* was stored returns the result the first call returned; over the two
\* calls the strategy is invoked exactly once and exactly one tracking-update
\* is broadcast.
C1_SecondCallWithinTtl ==
    [][\A id \in TrackIds :
          Detected(id) /\ TrackCalled(id) /\ StoredWithinTtl(id)
              => AnsweredAsFirst(id, 1)]_vars

\* The same on part_000 alone, and on server.js with no broadcast at all.
C1_SecondCallWithinTtlPerBuild ==
    [][\A id \in TrackIds :
          Detected(id) /\ TrackCalled(id) /\ StoredWithinTtl(id)
              => AnsweredAsFirst(id, IF build = "part_000" THEN 1 ELSE 0)]_vars

C1_Witness ==
    /\ lastResponse.source = "cache"
    /\ lastResponse.trackingNumber = UpsId

\* The step that begins a call for id hands it to the carrier strategy:
\* the call completes in this step after one strategy invocation, or it is
\* now suspended inside getAmazonTrackingWithLogin.
StrategyInvoked(id) ==
    \/ /\ lastResponse'.trackingNumber = id
       /\ lastResponse'.source # "cache"
       /\ lastResponse'.strategyCalls = 1
    \/ /\ lastResponse' = NoResponse
       /\ requests'[lastOp'.who].pc # "idle"
       /\ requests'[lastOp'.who].trackingNumber = id

\* The entry under the key of id has expired at the time of this step.
Expired(id) ==
    /\ KeyOf(id) \in DOMAIN trackingCache
    /\ trackingCache[KeyOf(id)].expiry <= now

\* C2: an expired entry is never served.  A call of track(id) made at or
\* after the expiry of the entry under its key is handled as a miss: the
\* carrier strategy is invoked again; every fresh result is stored with
\* expiry = store time + 10 minutes; and whatever is answered from the cache
\* is an entry that has not expired.
C2_ExpiredNeverServed ==
    [][/\ \A id \in TrackIds :
             Detected(id) /\ TrackCalled(id) /\ Expired(id)
                 => StrategyInvoked(id)
       /\ lastResponse'.source = "fresh"
             => trackingCache'[KeyOf(lastResponse'.trackingNumber)]
                    = [data |-> lastResponse'.body,
                       expiry |-> now' + 10 * 60 * 1000]
       /\ lastResponse'.source = "cache"
             => /\ trackingCache'[KeyOf(lastResponse'.trackingNumber)].expiry
                      > now'
                /\ lastResponse'.body
                      = trackingCache'[KeyOf(lastResponse'.trackingNumber)].data
      ]_vars

\* A fresh result has just replaced an entry that had expired.
C2_Witness ==
    /\ lastResponse.source = "fresh"
    /\ lastResponse.replaced > 0
    /\ lastResponse.replaced <= now

\* The tracking_update events among those the last step emitted.
TrackingUpdates == SelectSeq(emitted, LAMBDA e : e.ev = "tracking_update")

\* The payload carries the identifier, a carrier and every field of the
\* result.
CarriesResult(payload, response) ==
    /\ payload.trackingNumber = response.trackingNumber
    /\ "carrier" \in DOMAIN payload
    /\ \A f \in DOMAIN response.body : payload[f] = response.body[f]

\* C3: a tracking-update is broadcast to all connections exactly when a
\* track call completes a successful fresh fetch, once per fetch, carrying
\* the identifier, the carrier and the result; never on a cache hit, on a
\* 400 or on a strategy failure.
C3_BroadcastOnFreshFetch ==
    IF lastResponse.source = "fresh"
    THEN /\ Len(TrackingUpdates) = 1
         /\ TrackingUpdates[1].to = Connected
         /\ CarriesResult(TrackingUpdates[1].data, lastResponse)
    ELSE TrackingUpdates = <<>>

\* What holds of both builds: no tracking_update without a fresh fetch, and
\* on part_000 exactly one with it.
C3_BroadcastOnlyOnFreshFetch ==
    IF lastResponse.source = "fresh" /\ build = "part_000"
    THEN /\ Len(TrackingUpdates) = 1
         /\ TrackingUpdates[1].to = Connected
         /\ CarriesResult(TrackingUpdates[1].data, lastResponse)
    ELSE TrackingUpdates = <<>>

C3_Witness ==
    /\ lastResponse.source = "fresh"
    /\ TrackingUpdates # <<>>
    /\ TrackingUpdates[1].to = {"s1", "s2"}

\* The message names the identifier.
Names(message, id) ==
    \E i \in 1..Len(message) : SubSeq(message, i, i + Len(id) - 1) = id

\* The call that begins in this step ends in it with a 400 and this test of
\* its message, without a strategy invocation, a cache write or an event.
Rejected400(id, MessageOk(_)) ==
    /\ lastResponse'.status = 400
    /\ lastResponse'.trackingNumber = id
    /\ MessageOk(lastResponse'.body.error)
    /\ lastResponse'.strategyCalls = 0
    /\ requests' = requests
    /\ trackingCache' = trackingCache
    /\ emitted' = <<>>

\* C4: track with an empty or absent identifier fails with a 400
\* ValidationError, track with an identifier detect does not recognise fails
\* with a 400 CarrierDetectionError naming the identifier; in both cases no
\* strategy is invoked, the cache is unchanged and nothing is broadcast.
C4_RejectsWithoutEffect ==
    [][\A id \in TrackIds :
          /\ TrackCalled(id) /\ id \in {undefined, EmptyId}
                => Rejected400(id,
                       LAMBDA m : m = <<"Tracking number is required.">>)
          /\ TrackCalled(id) /\ id \notin {undefined, EmptyId}
                             /\ detectCarrier(build, id) = null
                => Rejected400(id,
                       LAMBDA m : /\ Names(m, id)
                                  /\ m # <<"Tracking number is required.">>)
      ]_vars

C4_Witness ==
    /\ lastResponse.status = 400
    /\ lastResponse.trackingNumber = NotACode
    /\ trackingCache # <<>>

\* C5: when the carrier strategy fails, the caller gets a 500 whose message
\* is the strategy's message unchanged, the strategy was invoked once, the
\* cache is unchanged and nothing is broadcast; a later track(id) misses the
\* cache and invokes the strategy again.
C5_StrategyFailure ==
    [][/\ lastResponse'.status = 500
             => /\ lastResponse'.thrown # <<>>
                /\ lastResponse'.body = [error |-> lastResponse'.thrown]
                /\ lastResponse'.strategyCalls = 1
                /\ trackingCache' = trackingCache
                /\ emitted' = <<>>
       /\ \A id \in TrackIds :
             Detected(id) /\ TrackCalled(id) /\ KeyOf(id) \in failedKeys
                 => /\ ~CacheLive(trackingCache, KeyOf(id), now)
                    /\ StrategyInvoked(id)
      ]_vars

\* A call has just failed in the strategy, after an earlier call for the
\* same identifier had failed as well.
C5_Witness ==
    /\ lastResponse.status = 500
    /\ lastResponse.trackingNumber = AmazonId
    /\ KeyOf(AmazonId) \in failedKeys
    /\ amazonSessionActive

\* The rules of the carrier detector as the design states them, written on
\* the characters of the identifier without the regular expressions.
Alnum == Digits \cup Upper \cup Lower

AllIn(s, from, to, class) == \A i \in from..to : s[i] \in class

RuleUPS(s) ==
    /\ Len(s) = 18
    /\ s[1] = "1" /\ s[2] \in {"Z", "z"}
    /\ AllIn(s, 3, 18, Alnum)

RuleFEDEX(s) == Len(s) \in {12, 15} /\ AllIn(s, 1, Len(s), Digits)

RuleDHL(s) ==
    /\ Len(s) = 13
    /\ AllIn(s, 1, 2, Upper \cup Lower)
    /\ AllIn(s, 3, 11, Digits)
    /\ AllIn(s, 12, 13, Upper \cup Lower)

RuleUSPS(s) ==
    /\ Len(s) \in 22..24
    /\ s[1] = "9" /\ s[2] \in {"2", "3", "4", "5"}
    /\ AllIn(s, 3, Len(s), Digits)

RuleAMAZON(s) ==
    /\ Len(s) = 19
    /\ s[4] = "-" /\ s[12] = "-"
    /\ AllIn(s, 1, 3, Alnum) /\ AllIn(s, 5, 11, Alnum)
    /\ AllIn(s, 13, 19, Alnum)

FirstRule(s) ==
    CASE RuleUPS(s) -> "ups"
      [] ~RuleUPS(s) /\ RuleFEDEX(s) -> "fedex"
      [] ~RuleUPS(s) /\ ~RuleFEDEX(s) /\ RuleDHL(s) -> "dhl"
      [] ~RuleUPS(s) /\ ~RuleFEDEX(s) /\ ~RuleDHL(s) /\ RuleUSPS(s) -> "usps"
      [] ~RuleUPS(s) /\ ~RuleFEDEX(s) /\ ~RuleDHL(s) /\ ~RuleUSPS(s)
           /\ RuleAMAZON(s) -> "amazon"
      [] OTHER -> null

\* C6: detect returns the tag of the first rule, in the order UPS, FEDEX,
\* DHL, USPS, AMAZON, that matches the whole identifier, and UNKNOWN (null)
\* when none does, the lower-case forms of UPS, DHL and AMAZON included.
C6_FirstMatchingRule ==
    output # Pending => output = <<FirstRule(input)>>

\* What holds of both builds: server.js differs from the rules only on
\* AMAZON identifiers that contain a lower-case letter.
C6_FirstMatchingRuleButLowerAmazon ==
    output # Pending =>
        output = <<IF /\ build = "server.js"
                      /\ FirstRule(input) = "amazon"
                      /\ \E i \in 1..Len(input) : input[i] \in Lower
                   THEN null
                   ELSE FirstRule(input)>>

C6_Witness ==
    /\ output = <<"amazon">>
    /\ \E i \in 1..Len(input) : input[i] \in Lower

\* The last step completed a fresh fetch made by the generic strategy.
FromGeneric ==
    /\ lastResponse.source = "fresh"
    /\ ~Suspends(build, lastResponse.carrier)

Activity == lastResponse.body.activity

Stop(n) == CHOOSE e \in {Activity[i] : i \in 1..Len(Activity)} :
              e.location = locations[n]

HasStops ==
    /\ Len(Activity) = 4
    /\ \A n \in 1..4 : \E i \in 1..4 : Activity[i].location = locations[n]

\* The first three stops are stamped 3, 2 and 1 days before now.
FirstThreeStops ==
    \A n \in 1..3 : Stop(n).timestamp = now - (4 - n) * 24 * 3600 * 1000

\* The outcome of a call, given the boolean drawn and the time at which the
\* 4th stop is stamped when the package is still in transit.
Outcome(delivered, inTransitStamp) ==
    /\ HasStops
    /\ FirstThreeStops
    /\ IF delivered
       THEN /\ Stop(4).status = "Delivered"
            /\ Stop(4).timestamp = now
            /\ lastResponse.body.status = "Delivered"
            /\ lastResponse.body.estimatedDelivery = now \div DAY
       ELSE /\ Stop(4).status = "Out for delivery"
            /\ Stop(4).timestamp = inTransitStamp
            /\ lastResponse.body.status = "In Transit"
            /\ lastResponse.body.estimatedDelivery = (now \div DAY) + 1

Emitted(ev) == SelectSeq(emitted, LAMBDA e : e.ev = ev)

\* The registry holds a record for c with this username.
Registered(c, username) ==
    /\ MapHas(liveUsers, c)
    /\ MapGet(liveUsers, c).id = c
    /\ MapGet(liveUsers, c).username = username

\* The other connections, and only they, received user_joined with the
\* record of c.
OthersToldOfJoin(c) ==
    /\ Len(Emitted("user_joined")) = 1
    /\ Emitted("user_joined")[1].to = Connected \ {c}
    /\ Emitted("user_joined")[1].data = MapGet(liveUsers, c)

\* c, and only c, received a snapshot of every registered user.
SnapshotSentTo(c) ==
    /\ Len(Emitted("current_users")) = 1
    /\ Emitted("current_users")[1].to = {c}
    /\ Emitted("current_users")[1].data = MapValues(liveUsers)
    /\ \E i \in 1..Len(Emitted("current_users")[1].data) :
          Emitted("current_users")[1].data[i] = MapGet(liveUsers, c)

\* C9: on join from connection c the record of c is set in the registry, c
\* receives a current-users snapshot of every registered user, its own new
\* record included, and every other connection, and only those, receives
\* user-joined with the record of c.
C9_JoinSnapshotAndBroadcast ==
    lastOp.op = "join" =>
        /\ Registered(lastOp.who, lastOp.arg)
        /\ SnapshotSentTo(lastOp.who)
        /\ OthersToldOfJoin(lastOp.who)

\* What holds of both builds: part_000 sends no snapshot on join.
C9_JoinBroadcast ==
    lastOp.op = "join" =>
        /\ Registered(lastOp.who, lastOp.arg)
        /\ IF build = "server.js"
           THEN SnapshotSentTo(lastOp.who)
           ELSE Emitted("current_users") = <<>>
        /\ OthersToldOfJoin(lastOp.who)

C9_Witness ==
    /\ lastOp.op = "join"
    /\ Len(liveUsers) = 2
    /\ Cardinality(Connected) = 3

\* C10: a chat message from connection c goes to all connections, c
\* included, with the message text and a timestamp; its user is the record
\* of c when c is registered and the placeholder {username: "Unknown",
\* avatar: ""} when it is not; the registry does not change.
C10_ChatToAll ==
    [][lastOp'.op = "send_chat_message" =>
          /\ Len(emitted') = 1
          /\ emitted'[1].ev = "receive_chat_message"
          /\ emitted'[1].to = Connected
          /\ lastOp'.who \in emitted'[1].to
          /\ emitted'[1].data.message = lastOp'.arg
          /\ emitted'[1].data.timestamp = now
          /\ IF \E i \in 1..Len(liveUsers) : liveUsers[i].key = lastOp'.who
             THEN \E i \in 1..Len(liveUsers) :
                     /\ liveUsers[i].key = lastOp'.who
                     /\ emitted'[1].data.user = liveUsers[i].value
             ELSE emitted'[1].data.user = [username |-> "Unknown", avatar |-> ""]
          /\ liveUsers' = liveUsers
      ]_vars

\* A connection that has not joined has sent a chat message while another
\* connection was registered.
C10_Witness ==
    /\ lastOp.op = "send_chat_message"
    /\ liveUsers # <<>>
    /\ ~MapHas(liveUsers, lastOp.who)
    /\ Cardinality(Connected) >= 2
    /\ emitted[1].data.user.username = "Unknown"

\* The connection ids under which the registry holds a record.
MapKeys(map) == {map[i].key : i \in 1..Len(map)}

\* The record under key c after the step is the one before it with the
\* coordinates of data, at the same place of the registry.
UpdatedInPlace(c, data) ==
    /\ Len(liveUsers') = Len(liveUsers)
    /\ \A i \in 1..Len(liveUsers) : liveUsers'[i].key = liveUsers[i].key
    /\ \E i \in 1..Len(liveUsers) :
          /\ liveUsers[i].key = c
          /\ liveUsers'[i].value.latitude = data.latitude
          /\ liveUsers'[i].value.longitude = data.longitude
          /\ \A f \in DOMAIN liveUsers[i].value \ {"latitude", "longitude"} :
                liveUsers'[i].value[f] = liveUsers[i].value[f]
          /\ DOMAIN liveUsers'[i].value
                = DOMAIN liveUsers[i].value \cup {"latitude", "longitude"}

\* C11: on a location update from a registered connection c the record of c
\* gets the new latitude and longitude in place, every connection other
\* than c receives the updated record and c receives nothing; from a
\* connection without a record the registry is unchanged and nothing is
\* sent.
C11_LocationToOthers ==
    [][lastOp'.op = "send-location" =>
          IF lastOp'.who \in MapKeys(liveUsers)
          THEN /\ UpdatedInPlace(lastOp'.who, lastOp'.arg)
               /\ Len(emitted') = 1
               /\ emitted'[1].ev = "receive-location"
               /\ emitted'[1].to = Connected \ {lastOp'.who}
               /\ emitted'[1].data = MapGet(liveUsers', lastOp'.who)
               /\ \A i \in 1..Len(emitted') : lastOp'.who \notin emitted'[i].to
          ELSE /\ liveUsers' = liveUsers
               /\ emitted' = <<>>
      ]_vars

\* A registered connection has moved while two others were connected.
C11_Witness ==
    /\ lastOp.op = "send-location"
    /\ emitted # <<>>
    /\ Cardinality(emitted[1].to) = 2
    /\ MapGet(liveUsers, lastOp.who).latitude = "52.52"

\* The step is a disconnect of c that tells exactly the connections in
\* recipients, removes the record of c when it had one, and is silent when
\* it had none.
Departure(recipients) ==
    IF lastOp'.who \in MapKeys(liveUsers)
    THEN /\ Len(emitted') = 1
         /\ emitted'[1].ev = "user_disconnected"
         /\ emitted'[1].data = lastOp'.who
         /\ emitted'[1].to = recipients
         /\ MapKeys(liveUsers') = MapKeys(liveUsers) \ {lastOp'.who}
         /\ \A k \in MapKeys(liveUsers') :
               MapGet(liveUsers', k) = MapGet(liveUsers, k)
    ELSE /\ emitted' = <<>>
         /\ liveUsers' = liveUsers

\* C12 (as stated): when a registered connection c disconnects, exactly the
\* connections that are registered (joined and not disconnected) receive
\* user-disconnected with the id of c, connections that never joined do
\* not, and the record of c is removed; an unregistered connection
\* disconnects silently.
C12_DepartureToRegistered ==
    [][lastOp'.op = "disconnect" => Departure(MapKeys(liveUsers'))]_vars

\* C12 (amended): user-disconnected goes to every connection that is still
\* connected, whether or not it has joined, and not to c.
C12_DepartureToConnected ==
    [][lastOp'.op = "disconnect" =>
          /\ Departure(Connected \ {lastOp'.who})
          /\ lastOp'.who \notin Connected'
      ]_vars

\* A registered connection has left while a connection that never joined
\* was connected and was told.
C12_Witness ==
    /\ lastOp.op = "disconnect"
    /\ emitted # <<>>
    /\ \E c \in emitted[1].to : c \notin MapKeys(liveUsers)

\* The registry holds records only for connected sockets, one per socket,
\* each under its own id.
RegistryWellFormed ==
    /\ MapKeys(liveUsers) \subseteq Connected
    /\ \A i, j \in 1..Len(liveUsers) :
          liveUsers[i].key = liveUsers[j].key => i = j
    /\ \A i \in 1..Len(liveUsers) : liveUsers[i].value.id = liveUsers[i].key

\* Every snapshot sent in the last step shows connected sockets only.
SnapshotsOfConnected ==
    \A n \in 1..Len(emitted) :
        emitted[n].ev = "current_users" =>
            \A i \in 1..Len(emitted[n].data) :
                emitted[n].data[i].id \in Connected

\* C13: the registry holds records only for connections that are connected
\* and have joined, each under its own connection id and at most one per
\* connection; a record appears only by the join of its connection; after a
\* connection has disconnected its record is in no snapshot sent afterwards.
C13_RegistryOfConnected ==
    /\ [](RegistryWellFormed /\ SnapshotsOfConnected)
    /\ [][\A c \in MapKeys(liveUsers') \ MapKeys(liveUsers) :
             lastOp'.op = "join" /\ lastOp'.who = c]_vars

\* A snapshot with a record in it has been sent after a connection left.
C13_Witness ==
    /\ \E c \in SocketIds : sockets[c] = "disconnected"
    /\ \E n \in 1..Len(emitted) :
          emitted[n].ev = "current_users" /\ emitted[n].data # <<>>

\* The steps of a login: the awaits of ensureAmazonSession that resume.
LoginOps ==
    {"amazon-signin", "amazon-order-history", "amazon-email",
     "amazon-password", "amazon-verify"}

\* The positions of a handler that is inside a login.
LoginPcs == {"signin", "orderHistory", "email", "password", "verify"}

\* The step begins a fetch for an Amazon order.
AmazonFetchBegins ==
    /\ lastOp'.op = "track"
    /\ lastOp'.arg = AmazonId
    /\ Suspends(build, "amazon")
    /\ ~CacheLive(trackingCache, KeyOf(AmazonId), now)

\* The fetch that begins goes straight to the order-details request.
ReusesSession ==
    /\ lastResponse' = NoResponse
    /\ requests'[lastOp'.who].pc = "detail"

\* C14: once the session is Active it stays Active, whatever fetches are
\* interleaved, and every fetch that begins while it is Active reuses it
\* without a login step.
C14_ActiveStaysActive ==
    [][amazonSessionActive =>
          /\ amazonSessionActive'
          /\ AmazonFetchBegins => ReusesSession
      ]_vars

\* What holds: the session stays Active as long as no login that began
\* before it became Active is still in flight.
C14_ActiveStaysActiveWithoutOverlap ==
    [][amazonSessionActive =>
          /\ (\A r \in RequestSlots : requests[r].pc \notin LoginPcs)
                => amazonSessionActive'
          /\ AmazonFetchBegins => ReusesSession
      ]_vars

\* A fetch has reused the Active session.
C14_Witness ==
    /\ amazonSessionActive
    /\ lastOp.op = "track"
    /\ requests[lastOp.who].pc = "detail"

\* The response to the submitted e-mail in which the login detects a
\* second-factor or a bot-verification challenge.
Challenge(response) ==
    /\ response.ok
    /\ ~response.form
    /\ "Enter your password" \notin response.text
    /\ \/ "auth-mfa-otpcode" \in response.text
       \/ "/errors/validateCaptcha" \in response.text

\* The last step was a login step that detected a challenge.
ChallengeDetected == lastOp.op = "amazon-email" /\ Challenge(lastOp.arg)

\* The message tells the caller to resolve the challenge by hand.
AsksForManualResolution(message) ==
    \E i \in 1..Len(message) :
        message[i] \in
          {"Amazon MFA/OTP required. Automated login with OTP is complex and not implemented in this demo. Please resolve on Amazon's website.",
           "Amazon Captcha challenge. Please resolve on Amazon's website."}

\* The fetch of the last step failed with an authentication error that asks
\* for manual resolution.
FailedOnChallenge ==
    /\ lastResponse.status = 500
    /\ AsksForManualResolution(lastResponse.body.error)
    /\ ~amazonSessionActive

\* A fetch begins in this step and goes to the provider: it starts a login
\* or asks for the order details.
FetchGoesToProvider ==
    /\ lastOp'.op = "track"
    /\ lastResponse' = NoResponse
    /\ requests'[lastOp'.who].pc \in LoginPcs \cup {"detail"}

\* C15: when a login detects a second-factor or bot-verification
\* challenge, the fetch fails with an authentication error that asks for
\* manual resolution, and the session is Failed for good: no later fetch
\* starts a login or sends any request to the provider.
C15_ChallengeIsTerminal ==
    [][/\ ChallengeDetected' => FailedOnChallenge'
       /\ challenged => ~FetchGoesToProvider
      ]_vars

\* What holds: the fetch fails with that error and the session is not
\* Active.
C15_ChallengeFailsFetch == ChallengeDetected => FailedOnChallenge

C15_Witness == ChallengeDetected /\ "auth-mfa-otpcode" \in lastOp.arg.text

\* The step begins a fetch for an Amazon order that the cache cannot serve.
AmazonMiss ==
    /\ lastOp'.op = "track"
    /\ lastOp'.arg = AmazonId
    /\ ~CacheLive(trackingCache, KeyOf(AmazonId), now)

\* The call ends at once with a configuration error: no request is sent,
\* the session is not Active, the cache is unchanged, nothing is emitted.
ConfigurationError ==
    /\ lastResponse'.status = 500
    /\ lastResponse'.body.error
          \in {<<"Amazon credentials (AMZ_USER, AMZ_PASS) not configured in .env file.">>,
               <<"Server is not configured for Amazon tracking.">>}
    /\ requests' = requests
    /\ ~amazonSessionActive'
    /\ trackingCache' = trackingCache
    /\ emitted' = <<>>

\* C16: without the provider credentials a fetch through the Amazon
\* strategy fails with a configuration error before any network request,
\* the session does not become Active and nothing is cached; nothing fails
\* at startup, and track calls for other carriers succeed.
C16_FailsWithoutCredentials ==
    [][/\ AmazonMiss /\ (~env.AMZ_USER \/ ~env.AMZ_PASS) => ConfigurationError
       /\ lastOp'.op = "track" /\ lastOp'.arg = UpsId
             => lastResponse'.status = 200
      ]_vars

\* What holds of both builds: server.js looks at AMZ_USER only.
C16_FailsWithoutCredentialsRead ==
    [][/\ AmazonMiss /\ (\/ ~env.AMZ_USER
                         \/ build = "part_000" /\ ~env.AMZ_PASS)
             => ConfigurationError
       /\ lastOp'.op = "track" /\ lastOp'.arg = UpsId
             => lastResponse'.status = 200
      ]_vars

C16_Witness ==
    /\ ~env.AMZ_PASS
    /\ lastOp.op = "track"
    /\ lastResponse.status = 500
    /\ lastResponse.carrier = "amazon"

\* The order-details page that arrived in the last step has no event card
\* under any selector.
NoEventsParsed ==
    /\ lastOp.op = "amazon-detail"
    /\ lastOp.arg.ok
    /\ \A i \in 1..Len(lastOp.arg.page.eventNodes) :
          lastOp.arg.page.eventNodes[i] = <<>>

\* t is text without the white space around it.
IsTrimOf(t, text) ==
    /\ t # <<>>
    /\ t[1] \notin {" ", "\t", "\n"} /\ t[Len(t)] \notin {" ", "\t", "\n"}
    /\ \E i \in 1..Len(text) :
          /\ SubSeq(text, i, i + Len(t) - 1) = t
          /\ \A k \in 1..Len(text) :
                k < i \/ k > i + Len(t) - 1 => text[k] \in {" ", "\t", "\n"}

\* The result of the last step is the one synthesized event.
OneSynthesizedEvent ==
    /\ lastResponse.status = 200
    /\ Len(Activity) = 1
    /\ Activity[1].status = lastResponse.body.status
    /\ Activity[1].geo = <<>>
    /\ lastOp.arg.page.statusElement # <<>>
          => IsTrimOf(Activity[1].status, lastOp.arg.page.statusElement[1])

\* C17: every result returned by a strategy, held in the cache or broadcast
\* has at least one activity event; when the order-details page yields no
\* parsed event, the result has exactly one synthesized event whose status
\* is the top-level status text, with geo null, and the fetch does not fail.
C17_ActivityNeverEmpty ==
    /\ lastResponse.status = 200 => Len(Activity) >= 1
    /\ \A key \in DOMAIN trackingCache :
          Len(trackingCache[key].data.activity) >= 1
    /\ \A i \in 1..Len(TrackingUpdates) :
          Len(TrackingUpdates[i].data.activity) >= 1
    /\ NoEventsParsed => OneSynthesizedEvent

\* A page with a status and no event card has been turned into a result.
C17_Witness ==
    /\ NoEventsParsed
    /\ lastOp.arg.page.statusElement # <<>>
    /\ lastResponse.status = 200
    /\ Len(Activity) = 1

\* C18: when the order-details page yields no parsed event and no status
\* text either, the fetch fails with a parse error (a 500): nothing is
\* returned, cached or broadcast for that call.
C18_BlankPageFails ==
    [][/\ lastOp'.op = "amazon-detail"
       /\ lastOp'.arg.ok
       /\ \A i \in 1..Len(lastOp'.arg.page.eventNodes) :
             lastOp'.arg.page.eventNodes[i] = <<>>
       /\ lastOp'.arg.page.statusElement = <<>>
       => /\ lastResponse'.status = 500
          /\ lastResponse'.source = "none"
          /\ trackingCache' = trackingCache
          /\ emitted' = <<>>
      ]_vars

\* What the code does with such a page: it answers 200 with the status
\* "Status not found" and one synthesized event, stores it and pushes it.
C18_BlankPageSucceeds ==
    NoEventsParsed /\ lastOp.arg.page.statusElement = <<>>
        => /\ lastResponse.status = 200
           /\ lastResponse.source = "fresh"
           /\ lastResponse.body.status = StatusNotFound
           /\ TrackingUpdates # <<>>

C18_Witness ==
    /\ NoEventsParsed
    /\ lastOp.arg.page.statusElement = <<>>
    /\ lastResponse.status = 200

\* The operations of the sockets and those of the tracking API.
SocketOps ==
    {"connection", "join", "send-location", "send_chat_message", "disconnect"}

TrackOps == {"track", "amazon-detail"} \cup LoginOps

\* The record under key k is the same before and after the step.
RecordKept(k) ==
    /\ k \in MapKeys(liveUsers) /\ k \in MapKeys(liveUsers')
    /\ MapGet(liveUsers', k) = MapGet(liveUsers, k)

\* C19: an event from connection c leaves the records of all other
\* connections unchanged, and track requests never change the registry: a
\* record is created only by the join of its connection, modified only by
\* the events of its connection, removed only by its disconnect.
C19_RegistryFrame ==
    [][/\ lastOp'.op \in SocketOps =>
             \A k \in (MapKeys(liveUsers) \cup MapKeys(liveUsers'))
                         \ {lastOp'.who} : RecordKept(k)
       /\ lastOp'.op \in TrackOps => liveUsers' = liveUsers
       /\ \A k \in MapKeys(liveUsers') \ MapKeys(liveUsers) :
             lastOp'.op = "join" /\ lastOp'.who = k
       /\ \A k \in MapKeys(liveUsers) \ MapKeys(liveUsers') :
             lastOp'.op = "disconnect" /\ lastOp'.who = k
       /\ \A k \in MapKeys(liveUsers) \cap MapKeys(liveUsers') :
             ~RecordKept(k) =>
                 /\ lastOp'.who = k
                 /\ lastOp'.op \in {"join", "send-location"}
      ]_vars

\* A track request has been answered from the provider while two
\* connections were registered, one of them with a location.
C19_Witness ==
    /\ lastOp.op = "amazon-detail"
    /\ lastResponse.status = 200
    /\ Len(liveUsers) = 2
    /\ \E i \in 1..Len(liveUsers) : liveUsers[i].value.latitude = "48.85"

\* The step begins a call for id while another call for id is in flight.
BeginsDuringFetch(id) ==
    /\ TrackCalled(id)
    /\ \E q \in RequestSlots :
          requests[q].pc # "idle" /\ requests[q].trackingNumber = id

\* The step completes a fresh fetch of a call during whose flight another
\* call stored an entry under the same key.
CompletesAfterStore ==
    /\ lastResponse'.source = "fresh"
    /\ lastResponse'.overlapped

\* C20: cache misses are not coalesced.  A call that begins while another
\* call for the same identifier is in flight and has not stored invokes the
\* strategy on its own; each of the two overlapping calls writes the entry
\* of the key, the later write replacing the earlier, and each emits a
\* tracking-update with its own result; afterwards the cache holds one
\* entry for the key, the result of the call that stored last.
C20_MissesNotCoalesced ==
    [][/\ \A id \in TrackIds :
             Detected(id) /\ BeginsDuringFetch(id)
                          /\ ~CacheLive(trackingCache, KeyOf(id), now)
                 => StrategyInvoked(id)
       /\ CompletesAfterStore =>
             /\ lastResponse'.status = 200
             /\ lastResponse'.strategyCalls = 1
             /\ KeyOf(lastResponse'.trackingNumber) \in DOMAIN trackingCache
             /\ DOMAIN trackingCache' = DOMAIN trackingCache
             /\ trackingCache'[KeyOf(lastResponse'.trackingNumber)]
                   = [data |-> lastResponse'.body,
                      expiry |-> now + 10 * 60 * 1000]
             /\ Len(TrackingUpdates') = 1
             /\ TrackingUpdates'[1].to = Connected
             /\ CarriesResult(TrackingUpdates'[1].data, lastResponse')
      ]_vars

\* The second of two overlapping calls has replaced the entry that the
\* first had stored in the meantime, with a different result.
C20_Witness ==
    /\ lastResponse.source = "fresh"
    /\ lastResponse.overlapped
    /\ lastResponse.replaced > now
    /\ lastResponse.previous # <<>>
    /\ lastResponse.previous[1] # lastResponse.body
    /\ trackingCache[KeyOf(lastResponse.trackingNumber)].data
          = lastResponse.body


\* The next step of the login of the handler in slot r.
LoginStepOf(r) ==
    \/ \E response \in FormResponses : AmazonSignin(r, response)
    \/ \E response \in FormResponses : AmazonOrderHistory(r, response)
    \/ \E response \in EmailResponses : AmazonEmail(r, response)
    \/ \E response \in PasswordResponses : AmazonPassword(r, response)
    \/ \E response \in VerifyResponses : AmazonVerify(r, response)

\* The positions a handler at position pc of a login can move to: the next
\* await of the sequence, or the end of the handler when the login fails.
LoginSuccessors(pc) ==
    CASE pc = "signin" -> {"orderHistory", "email", "idle"}
      [] pc = "orderHistory" -> {"email", "idle"}
      [] pc = "email" -> {"password", "idle"}
      [] pc = "password" -> {"verify", "idle"}
      [] pc = "verify" -> {"detail", "idle"}

\* The step begins a fetch for an Amazon order while the session is not
\* Active and the credentials are configured.
LoginNeeded ==
    /\ AmazonFetchBegins
    /\ ~amazonSessionActive
    /\ env.AMZ_USER /\ env.AMZ_PASS

\* C21: the login is not single-flight.  A fetch through the
\* authenticated-provider strategy that begins while the session is not
\* Active starts a login of its own at the sign-in request, whether or not
\* another handler is inside a login; each handler inside a login runs the
\* whole sequence on the one active flag, its next step possible in every
\* state and leaving the other handler where it is; and a handler gets to
\* the order-details request only from its own verification or by beginning
\* while the session is Active, never by waiting for or taking over the
\* login of another handler.
C21_LoginNotSingleFlight ==
    /\ [](\A r \in RequestSlots :
             /\ requests[r].pc \in LoginPcs \cup {"detail", "idle"}
             /\ requests[r].pc \in LoginPcs => ENABLED LoginStepOf(r))
    /\ [][/\ LoginNeeded =>
                /\ lastResponse' = NoResponse
                /\ requests'[lastOp'.who].pc = "signin"
          /\ \A r \in RequestSlots :
                /\ requests[r].pc \in LoginPcs
                   /\ requests'[r].pc # requests[r].pc
                      => /\ lastOp'.op \in LoginOps
                         /\ lastOp'.who = r
                         /\ requests'[r].pc \in LoginSuccessors(requests[r].pc)
                         /\ \A q \in RequestSlots \ {r} :
                               requests'[q].pc = requests[q].pc
                /\ requests[r].pc # "detail" /\ requests'[r].pc = "detail"
                      => \/ /\ requests[r].pc = "verify"
                            /\ lastOp'.op = "amazon-verify"
                            /\ lastOp'.who = r
                            /\ amazonSessionActive'
                         \/ /\ requests[r].pc = "idle"
                            /\ lastOp'.op = "track"
                            /\ lastOp'.who = r
                            /\ amazonSessionActive
         ]_vars

\* A second fetch has begun its own login at the sign-in request while the
\* first is at the verification of its login.
C21_Witness ==
    /\ ~amazonSessionActive
    /\ lastOp.op = "track"
    /\ lastOp.who = 2
    /\ requests[1].pc = "verify"
    /\ requests[2].pc = "signin"

(***************************************************************************)
(* Properties of the detection patterns.                                   *)
(***************************************************************************)
\* The tags in the order of the tests of detectCarrier.
SourceOrder == <<"ups", "fedex", "dhl", "usps", "amazon">>

Tags == {SourceOrder[i] : i \in 1..5}

\* The regular expression that detectCarrier tests for a tag.
RegexOf(tag) ==
    CASE tag = "ups" -> UpsRegex
      [] tag = "fedex" -> FedexRegex
      [] tag = "dhl" -> DhlRegex
      [] tag = "usps" -> UspsRegex
      [] tag = "amazon" -> AmazonRegex

\* The test of detectCarrier for a tag, with the flag the build gives it.
RuleTest(b, tag, s) ==
    RegexTest(RegexOf(tag), s,
              IgnoreCase(b) /\ tag \in {"ups", "dhl", "amazon"})

\* The tags whose expression matches s.
MatchedTags(b, s) == {tag \in Tags : RuleTest(b, tag, s)}

\* The orders of the five rules.
RuleOrders ==
    {[i \in 1..5 |-> SourceOrder[p[i]]] : p \in Permutations(1..5)}

\* detectCarrier with its tests in the given order, on an identifier that
\* the expressions of the tags in matched match.
DetectInOrder(order, matched) ==
    IF \E i \in 1..5 : order[i] \in matched
    THEN order[CHOOSE i \in 1..5 :
                  /\ order[i] \in matched
                  /\ \A j \in 1..(i - 1) : order[j] \notin matched]
    ELSE null

RECURSIVE PatternLengths(_, _)
\* The lengths of the strings that pat[pi..] can match.
PatternLengths(pat, pi) ==
    IF pi > Len(pat)
    THEN {0}
    ELSE {n + m : n \in pat[pi].min .. pat[pi].max,
                  m \in PatternLengths(pat, pi + 1)}

\* The total lengths an anchored expression accepts.
RegexLengths(alternatives) ==
    UNION {PatternLengths(pat, 1) : pat \in alternatives}

\* The total lengths the specification gives for a tag.
AcceptedLengths(tag) ==
    CASE tag = "ups" -> {18}
      [] tag = "fedex" -> {12, 15}
      [] tag = "dhl" -> {13}
      [] tag = "usps" -> 22..24
      [] tag = "amazon" -> {19}

\* C22: the five detection patterns are pairwise disjoint.  The total
\* lengths they accept are 18 for UPS, 12 or 15 for FEDEX, 13 for DHL, 22 to
\* 24 for USPS and 19 for AMAZON, no two of them sharing a length; no
\* identifier matches more than one rule; and detect returns the tag
\* detectCarrier returned under every permutation of the rule order.
C22_PatternsDisjoint ==
    output # Pending =>
        /\ \A tag \in Tags :
              RegexLengths(RegexOf(tag)) = AcceptedLengths(tag)
        /\ \A t1, t2 \in Tags :
              t1 # t2 => RegexLengths(RegexOf(t1))
                            \cap RegexLengths(RegexOf(t2)) = {}
        /\ \E matched \in {MatchedTags(build, input)} :
              /\ Cardinality(matched) <= 1
              /\ \A tag \in matched : Len(input) \in AcceptedLengths(tag)
              /\ \A order \in RuleOrders :
                    output = <<DetectInOrder(order, matched)>>

\* detectCarrier has returned USPS, the tag of its fourth test, for an
\* identifier of 24 characters.
C22_Witness ==
    /\ output = <<"usps">>
    /\ Len(input) = 24
    /\ MatchedTags(build, input) = {"usps"}

(***************************************************************************)
(* Properties of a repeated join.                                          *)
(***************************************************************************)
\* The step is a join from a connection that has a record.
JoinsAgain ==
    /\ lastOp'.op = "join"
    /\ lastOp'.who \in MapKeys(liveUsers)

\* The record carries no reported position.
NoPosition(record) ==
    \A f \in {"latitude", "longitude"} :
        f \in DOMAIN record => record[f] = null

\* C23: a second join from a connection that is already registered
\* replaces the record of the connection instead of adding one.  The
\* registry holds the same keys as before, exactly one of them the
\* connection's; its record has the new username and no latitude or
\* longitude, whatever was reported before; the records of the other
\* connections are as they were; and all other connections, and only
\* those, receive one user-joined event with the new record, whose id is
\* the connection id.
C23_RejoinReplaces ==
    [][JoinsAgain =>
          /\ Len(liveUsers') = Len(liveUsers)
          /\ \A i \in 1..Len(liveUsers) :
                /\ liveUsers'[i].key = liveUsers[i].key
                /\ liveUsers[i].key # lastOp'.who
                      => liveUsers'[i].value = liveUsers[i].value
          /\ Cardinality({i \in 1..Len(liveUsers') :
                             liveUsers'[i].key = lastOp'.who}) = 1
          /\ MapGet(liveUsers', lastOp'.who).id = lastOp'.who
          /\ MapGet(liveUsers', lastOp'.who).username = lastOp'.arg
          /\ NoPosition(MapGet(liveUsers', lastOp'.who))
          /\ \E n \in 1..Len(emitted') :
                /\ emitted'[n].ev = "user_joined"
                /\ emitted'[n].to = Connected \ {lastOp'.who}
                /\ emitted'[n].data = MapGet(liveUsers', lastOp'.who)
                /\ emitted'[n].data.id = lastOp'.who
                /\ \A k \in 1..Len(emitted') :
                      emitted'[k].ev = "user_joined" => k = n
      ]_vars

\* A connection has joined again as bob while two others were connected:
\* its record is the first of two, where only a record that was there
\* before the join can be, a first join adding its record last.
C23_Witness ==
    /\ lastOp.op = "join"
    /\ lastOp.arg = "bob"
    /\ Len(liveUsers) = 2
    /\ liveUsers[1].key = lastOp.who
    /\ liveUsers[1].value.username = "bob"
    /\ Cardinality(Connected) = 3

====
